---- MODULE Spec2Model ----
(***************************************************************************)
(* Model of plan/05-fix-research-ralph/scripts/new_csmith_findings.py:     *)
(* main() lists the csmith-reports directory, extracts the timestamp of    *)
(* each report file name, extracts the timestamps found in PLAN.md, and    *)
(* prints the report timestamps PLAN.md does not hold.                     *)
(*                                                                         *)
(* Text is a sequence of characters, each a string: an ASCII character is  *)
(* itself, a character outside ASCII is named by its code point            *)
(* ("U+0663"). The content of PLAN.md and the names of the directory's     *)
(* entries are sequences of bytes: an ASCII byte is written as its         *)
(* character, any other byte by its value ("0xD9").                        *)
(* The script names no encoding: the interpreter takes the encoding of     *)
(* read_text() and of file names (env.file_encoding, the locale's) and     *)
(* that of standard output (env.stdout_encoding) from its environment.     *)
(***************************************************************************)
EXTENDS Integers, Sequences, FiniteSets

VARIABLES env, dir, plan, pc, pending, report_ids, mentioned_ids, new_ids,
          printed, output, exc, plan_read, run, prev_output, prev_exc

vars == <<env, dir, plan, pc, pending, report_ids, mentioned_ids, new_ids,
          printed, output, exc, plan_read, run, prev_output, prev_exc>>

(***************************************************************************)
(* Bounds of the model and constants of the program.                       *)
(***************************************************************************)
\* Most entries a generated report directory holds.
MaxEntries == 2
\* Most pieces a generated PLAN.md is made of.
MaxPlanPieces == 3
\* Times the script is run on the same inputs.
MaxRuns == 2
\* \d{8} and \d{6} of both regular expressions.
DateDigits == 8
TimeDigits == 6

StampLen == DateDigits + 1 + TimeDigits

(***************************************************************************)
(* Text helpers.                                                           *)
(***************************************************************************)
AsciiDigits == {"0", "1", "2", "3", "4", "5", "6", "7", "8", "9"}

\* The characters of the model outside ASCII: ARABIC-INDIC DIGIT THREE and
\* NINE, FULLWIDTH DIGIT ONE (all of category Nd), the letters a-tilde and
\* e-acute, the characters the bytes of the model are in Latin-1, and the
\* lone surrogates that stand for the bytes of a file name that its
\* encoding does not hold.
Surrogates == {"U+DCA3", "U+DCA9", "U+DCC3", "U+DCD9", "U+DCFF"}
NonAscii ==
    {"U+0663", "U+0669", "U+FF11", "U+00E3", "U+00E9", "U+00A3", "U+00A9",
     "U+00C3", "U+00D9", "U+00FF"} \cup Surrogates

\* Those of them Latin-1 holds (code points up to U+00FF).
Latin1Chars ==
    {"U+00E3", "U+00E9", "U+00A3", "U+00A9", "U+00C3", "U+00D9", "U+00FF"}

\* The patterns are str patterns: \d matches every Unicode decimal digit
\* (category Nd), the ASCII digits and those of other scripts.
Digits == AsciiDigits \cup {"U+0663", "U+0669", "U+FF11"}

\* \d of the regular expressions.
IsDigit(c) == c \in Digits

\* The code point of a character an identifier can hold: str comparison in
\* sorted() compares code points.
Code(c) ==
    CASE c = "-" -> 45
      [] c = "0" -> 48 [] c = "1" -> 49 [] c = "2" -> 50 [] c = "3" -> 51
      [] c = "4" -> 52 [] c = "5" -> 53 [] c = "6" -> 54 [] c = "7" -> 55
      [] c = "8" -> 56 [] c = "9" -> 57
      [] c = "U+0663" -> 1635 [] c = "U+0669" -> 1641
      [] c = "U+FF11" -> 65297

MinOf(S) == CHOOSE x \in S : \A y \in S : x <= y

\* a < b for Python strings: lexicographic, a proper prefix is smaller.
StrLess(a, b) ==
    \E i \in 1..(Len(a) + 1) :
        /\ i <= Len(b)
        /\ \A k \in 1..(i - 1) : a[k] = b[k]
        /\ (i = Len(a) + 1 \/ Code(a[i]) < Code(b[i]))

\* Whether literal lit stands in s at position i.
LiteralAt(s, i, lit) ==
    /\ i >= 1
    /\ i + Len(lit) - 1 <= Len(s)
    /\ \A k \in 1..Len(lit) : s[i + k - 1] = lit[k]

RECURSIVE Flatten(_)
Flatten(ss) == IF ss = <<>> THEN <<>> ELSE Head(ss) \o Flatten(Tail(ss))

(***************************************************************************)
(* The literals of the script.                                             *)
(***************************************************************************)
ReportPrefix == <<"r", "e", "p", "o", "r", "t", "-">>
MdSuffix == <<".", "m", "d">>
HeaderLine ==
    <<"N", "e", "w", " ", "f", "i", "n", "d", "i", "n", "g", "s", " ", "n",
      "o", "t", " ", "i", "n", " ", "P", "L", "A", "N", ".", "m", "d", ":">>
NoNewLine ==
    <<"N", "o", " ", "n", "e", "w", " ", "f", "i", "n", "d", "i", "n", "g",
      "s", ".">>
ItemPrefix == <<" ", " ", "-", " ", "[", " ", "]", " ">>

(***************************************************************************)
(* The regular expressions and the glob pattern.                           *)
(***************************************************************************)
\* \d{8}-\d{6} matches s from position i.
MatchStampAt(s, i) ==
    /\ i >= 1
    /\ i + StampLen - 1 <= Len(s)
    /\ \A k \in 0..(DateDigits - 1) : IsDigit(s[i + k])
    /\ s[i + DateDigits] = "-"
    /\ \A k \in 1..TimeDigits : IsDigit(s[i + DateDigits + k])

\* $ of re (no MULTILINE) at position p: the end of the string, or just
\* before a newline that ends the string.
AtEnd(s, p) == p = Len(s) + 1 \/ (p = Len(s) /\ s[p] = "\n")

\* report-(\d{8}-\d{6})\.md$ matches name from position i.
MatchReportAt(name, i) ==
    /\ LiteralAt(name, i, ReportPrefix)
    /\ MatchStampAt(name, i + Len(ReportPrefix))
    /\ LiteralAt(name, i + Len(ReportPrefix) + StampLen, MdSuffix)
    /\ AtEnd(name, i + Len(ReportPrefix) + StampLen + Len(MdSuffix))

\* re.search: the leftmost position the pattern matches from, 0 for None.
SearchReport(name) ==
    LET hits == {i \in 1..Len(name) : MatchReportAt(name, i)}
    IN  IF hits = {} THEN 0 ELSE MinOf(hits)

\* match.group(1) of a match that starts at position i.
Group1Truncated(name, i) ==
    SubSeq(name, i + Len(ReportPrefix), i + Len(ReportPrefix) + StampLen - 2)
Group1(name, i) ==
    SubSeq(name, i + Len(ReportPrefix), i + Len(ReportPrefix) + StampLen - 1)

\* fnmatch of the pattern report-*.md on an entry name (case-sensitive).
GlobMatch(name) ==
    /\ Len(name) >= Len(ReportPrefix) + Len(MdSuffix)
    /\ LiteralAt(name, 1, ReportPrefix)
    /\ LiteralAt(name, Len(name) - Len(MdSuffix) + 1, MdSuffix)

\* re.findall(r'\d{8}-\d{6}', s): the scan moves past each match it finds,
\* so matches do not overlap.
RECURSIVE FindFrom(_, _)
FindFrom(s, i) ==
    IF i > Len(s) THEN {}
    ELSE IF MatchStampAt(s, i)
         THEN {SubSeq(s, i, i + StampLen - 1)} \cup FindFrom(s, i + StampLen)
         ELSE FindFrom(s, i + 1)

FindAll(s) == FindFrom(s, 1)

(***************************************************************************)
(* The file system the script reads.                                       *)
(***************************************************************************)
\* The bytes of the model outside ASCII: two lead bytes of a two-byte
\* UTF-8 sequence, two continuation bytes, and a byte no UTF-8 text holds.
LeadBytes == {"0xC3", "0xD9"}
ContinuationBytes == {"0xA3", "0xA9"}
InvalidByte == "0xFF"

\* The character a two-byte UTF-8 sequence encodes.
TwoByteChar(lead, cont) ==
    CASE lead = "0xC3" /\ cont = "0xA3" -> "U+00E3"
      [] lead = "0xC3" /\ cont = "0xA9" -> "U+00E9"
      [] lead = "0xD9" /\ cont = "0xA3" -> "U+0663"
      [] lead = "0xD9" /\ cont = "0xA9" -> "U+0669"

\* Strict UTF-8 decoding from byte i on: an ASCII byte stands alone, a lead
\* byte needs its continuation byte, a continuation byte cannot start a
\* character, and 0xFF is never valid.
RECURSIVE Utf8ValidFrom(_, _)
Utf8ValidFrom(bytes, i) ==
    IF i > Len(bytes) THEN TRUE
    ELSE IF bytes[i] \in LeadBytes
         THEN /\ i + 1 <= Len(bytes)
              /\ bytes[i + 1] \in ContinuationBytes
              /\ Utf8ValidFrom(bytes, i + 2)
         ELSE /\ bytes[i] \notin ContinuationBytes
              /\ bytes[i] # InvalidByte
              /\ Utf8ValidFrom(bytes, i + 1)

RECURSIVE Utf8From(_, _)
Utf8From(bytes, i) ==
    IF i > Len(bytes) THEN <<>>
    ELSE IF bytes[i] \in LeadBytes
         THEN <<TwoByteChar(bytes[i], bytes[i + 1])>> \o Utf8From(bytes, i + 2)
         ELSE <<bytes[i]>> \o Utf8From(bytes, i + 1)

\* Text mode reads with universal newlines: "\r\n" and a lone "\r" are
\* both read as "\n".
RECURSIVE UniversalNewlines(_)
UniversalNewlines(s) ==
    IF s = <<>> THEN <<>>
    ELSE IF Head(s) = "\r"
         THEN IF Len(s) >= 2 /\ s[2] = "\n"
              THEN <<"\n">> \o UniversalNewlines(Tail(Tail(s)))
              ELSE <<"\n">> \o UniversalNewlines(Tail(s))
         ELSE <<Head(s)>> \o UniversalNewlines(Tail(s))

\* The character a byte is in Latin-1: every byte is one.
Latin1Char(b) ==
    CASE b = "0xA3" -> "U+00A3" [] b = "0xA9" -> "U+00A9"
      [] b = "0xC3" -> "U+00C3" [] b = "0xD9" -> "U+00D9"
      [] b = "0xFF" -> "U+00FF" [] OTHER -> b

IsAsciiByte(b) ==
    b \notin LeadBytes \cup ContinuationBytes \cup {InvalidByte}

\* The encodings an environment can give the interpreter, among them its
\* UTF-8 default, the ASCII of the C locale without UTF-8 mode and of
\* PYTHONIOENCODING=ascii, and Latin-1.
Encodings == {"utf-8", "ascii", "latin-1"}

\* Path.read_text() names no encoding and decodes strictly with the one of
\* the environment: bytes it does not hold raise UnicodeDecodeError; the
\* others are decoded and their newlines translated.
Decodable(enc, bytes) ==
    CASE enc = "utf-8" -> Utf8ValidFrom(bytes, 1)
      [] enc = "ascii" -> \A i \in 1..Len(bytes) : IsAsciiByte(bytes[i])
      [] enc = "latin-1" -> TRUE
Decode(enc, bytes) ==
    UniversalNewlines(
        IF enc = "utf-8" THEN Utf8From(bytes, 1)
        ELSE [i \in 1..Len(bytes) |-> Latin1Char(bytes[i])])

\* sys.stdout encodes what print() writes with the encoding of the
\* environment; a character it does not hold raises UnicodeEncodeError
\* (no encoding holds a lone surrogate).
EncodableChar(enc, c) ==
    CASE enc = "utf-8" -> c \notin Surrogates
      [] enc = "ascii" -> c \notin NonAscii
      [] enc = "latin-1" -> c \notin NonAscii \/ c \in Latin1Chars
Encodable(enc, line) == \A i \in 1..Len(line) : EncodableChar(enc, line[i])

\* The lone surrogate that stands for a byte outside ASCII
\* (errors="surrogateescape": byte 0xNN becomes U+DCNN).
SurrogateChar(b) ==
    CASE b = "0xA3" -> "U+DCA3" [] b = "0xA9" -> "U+DCA9"
      [] b = "0xC3" -> "U+DCC3" [] b = "0xD9" -> "U+DCD9"
      [] b = "0xFF" -> "U+DCFF"

\* UTF-8 decoding of a file name from byte i on: a byte that is not part
\* of a valid sequence becomes its surrogate instead of raising.
RECURSIVE Utf8EscapeFrom(_, _)
Utf8EscapeFrom(bytes, i) ==
    IF i > Len(bytes) THEN <<>>
    ELSE IF /\ bytes[i] \in LeadBytes
            /\ i + 1 <= Len(bytes)
            /\ bytes[i + 1] \in ContinuationBytes
         THEN <<TwoByteChar(bytes[i], bytes[i + 1])>>
              \o Utf8EscapeFrom(bytes, i + 2)
         ELSE <<IF IsAsciiByte(bytes[i]) THEN bytes[i]
                ELSE SurrogateChar(bytes[i])>>
              \o Utf8EscapeFrom(bytes, i + 1)

\* The name the interpreter gives an entry: the bytes of the name on disk
\* decoded with the file system encoding, which is the locale's encoding
\* as that of read_text() is, with errors="surrogateescape".
FsDecode(enc, bytes) ==
    CASE enc = "utf-8" -> Utf8EscapeFrom(bytes, 1)
      [] enc = "ascii" ->
           [i \in 1..Len(bytes) |->
               IF IsAsciiByte(bytes[i]) THEN bytes[i]
               ELSE SurrogateChar(bytes[i])]
      [] enc = "latin-1" -> [i \in 1..Len(bytes) |-> Latin1Char(bytes[i])]

\* The names of the directory's entries as the interpreter sees them;
\* Path.glob() of a directory that does not exist yields nothing.
Listing(enc, d) ==
    IF d.exists THEN {FsDecode(enc, n) : n \in d.entries} ELSE {}

\* reports_dir.glob("report-*.md")
Glob(enc, d) == {n \in Listing(enc, d) : GlobMatch(n)}

\* if plan_file.exists():
ShouldRead(p) == p.exists

(***************************************************************************)
(* The difference and its order.                                           *)
(***************************************************************************)
\* report_ids - mentioned_ids
NewIdSet(r, m) == r \ m

\* The orders in which iterating a set can yield its elements.
Orders(S) ==
    {f \in [1..Cardinality(S) -> S] : \A x \in S : \E i \in DOMAIN f : f[i] = x}

RECURSIVE InsertSorted(_, _)
InsertSorted(x, s) ==
    IF s = <<>> THEN <<x>>
    ELSE IF StrLess(Head(s), x) THEN <<Head(s)>> \o InsertSorted(x, Tail(s))
         ELSE <<x>> \o s

\* sorted(): ascending, whatever the order of the input.
SortSeqUnsorted(s) == s
RECURSIVE SortSeq(_)
SortSeq(s) == IF s = <<>> THEN <<>> ELSE InsertSorted(Head(s), SortSeq(Tail(s)))

\* f"  - [ ] {id}"
ItemLine(id) == ItemPrefix \o id

(***************************************************************************)
(* The inputs the runs are checked on.                                     *)
(***************************************************************************)
DateA == <<"1", "1", "1", "1", "1", "1", "1", "1">>
DateB == <<"2", "2", "2", "2", "2", "2", "2", "2">>
TimeA == <<"3", "3", "3", "3", "3", "3">>
TimeB == <<"4", "4", "4", "4", "4", "4">>
ShortDate == <<"1", "1", "1", "1", "1", "1", "1">>
\* The UTF-8 bytes of a date whose last digit is ARABIC-INDIC DIGIT THREE.
DateUBytes == ShortDate \o <<"0xD9", "0xA3">>
ShortTime == <<"3", "3", "3", "3", "3">>
Hyphen == <<"-">>
OldPrefix == <<"o", "l", "d", "-">>
TxtSuffix == <<".", "t", "x", "t">>

Stamp(d, t) == d \o Hyphen \o t
Name(prefix, d, t, suffix) == prefix \o Stamp(d, t) \o suffix

NamePrefixes ==
    {ReportPrefix, ReportPrefix \o OldPrefix \o ReportPrefix,
     OldPrefix \o ReportPrefix}

\* Entry names on disk: well-formed report names, names that hold a report name
\* after other text, and names that miss the pattern in one place.
EntryNames ==
    {Name(p, d, t, MdSuffix) : p \in NamePrefixes, d \in {DateA, DateB},
                               t \in {TimeA, TimeB}}
    \cup {Name(ReportPrefix, DateA, ShortTime, MdSuffix),
          Name(ReportPrefix, ShortDate, TimeA, MdSuffix),
          Name(ReportPrefix, DateA, TimeA, TxtSuffix),
          Name(ReportPrefix, DateUBytes, TimeA, MdSuffix),
          ReportPrefix \o MdSuffix}

Dir(S) == [exists |-> TRUE, entries |-> S]
AbsentDir == [exists |-> FALSE, entries |-> {}]

AllDirs ==
    {Dir(S) : S \in {T \in SUBSET EntryNames : Cardinality(T) <= MaxEntries}}
    \cup {AbsentDir}

SampleDirs ==
    {AbsentDir, Dir({}),
     Dir({Name(ReportPrefix, DateB, TimeA, MdSuffix),
          Name(ReportPrefix, DateA, TimeA, MdSuffix)}),
     Dir({Name(ReportPrefix, DateB, TimeB, MdSuffix),
          Name(ReportPrefix \o OldPrefix \o ReportPrefix, DateB, TimeB,
               MdSuffix),
          Name(ReportPrefix, DateB, TimeA, MdSuffix),
          Name(ReportPrefix, DateA, TimeB, MdSuffix)}),
     Dir({Name(ReportPrefix, DateUBytes, TimeA, MdSuffix),
          Name(ReportPrefix, DateA, TimeA, MdSuffix)})}

\* PLAN.md: a file with its bytes, a directory of that name, or nothing.
PlanFile(bytes) == [exists |-> TRUE, isdir |-> FALSE, bytes |-> bytes]
PlanDirectory == [exists |-> TRUE, isdir |-> TRUE, bytes |-> <<>>]
AbsentPlan == [exists |-> FALSE, isdir |-> FALSE, bytes |-> <<>>]

\* Pieces of a PLAN.md: a date with its hyphen (one with a digit outside
\* ASCII), a time, a letter, a carriage return, a newline, a byte that is
\* not UTF-8.
PlanPieces ==
    {DateA \o Hyphen, DateB \o Hyphen, DateUBytes \o Hyphen, TimeA, <<"x">>,
     <<"\r">>, <<"\n">>, <<InvalidByte>>}

AllPlans ==
    {PlanFile(Flatten(ps)) :
        ps \in UNION {[1..n -> PlanPieces] : n \in 0..MaxPlanPieces}}
    \cup {AbsentPlan}

SamplePlans ==
    {AbsentPlan, PlanDirectory, PlanFile(<<>>),
     PlanFile(Stamp(DateA, TimeA)),
     PlanFile(<<"x">> \o Stamp(DateB, TimeA) \o <<"x">>),
     PlanFile(DateA \o Hyphen \o DateB \o Hyphen \o TimeA),
     PlanFile(<<"0xC3", "0xA9", "\r", "\n">> \o DateUBytes \o Hyphen \o TimeA
              \o <<"\r">>),
     PlanFile(<<"x", "0xD9">>),
     PlanFile(<<"0xA3">>),
     PlanFile(<<InvalidByte>>)}

Env(file, stdout) == [file_encoding |-> file, stdout_encoding |-> stdout]
DefaultEnv == Env("utf-8", "utf-8")
Envs == {Env(f, o) : f \in Encodings, o \in Encodings}
\* Those that differ from the default in one encoding at most.
AxisEnvs ==
    {e \in Envs : e.file_encoding = "utf-8" \/ e.stdout_encoding = "utf-8"}

\* Under the default environment every directory with a few plans and
\* every plan with a few directories; under every environment the few
\* directories with the few plans; under the environments one encoding
\* away from the default every directory without plan, and the directory
\* that holds one report with every plan.
Inputs ==
    (({DefaultEnv} \X AllDirs) \X SamplePlans)
    \cup (({DefaultEnv} \X SampleDirs) \X AllPlans)
    \cup ((Envs \X SampleDirs) \X SamplePlans)
    \cup ((AxisEnvs \X AllDirs) \X {AbsentPlan})
    \cup ((AxisEnvs
            \X {Dir({Name(ReportPrefix, DateUBytes, TimeA, MdSuffix)})})
           \X AllPlans)

(***************************************************************************)
(* The state machine: one run of main() after another.                     *)
(***************************************************************************)
Init ==
    /\ \E in \in Inputs : env = in[1][1] /\ dir = in[1][2] /\ plan = in[2]
    /\ pc = "start"
    /\ pending = {}
    /\ report_ids = {}
    /\ mentioned_ids = {}
    /\ new_ids = <<>>
    /\ printed = 0
    /\ output = <<>>
    /\ exc = "none"
    /\ plan_read = FALSE
    /\ run = 1
    /\ prev_output = <<>>
    /\ prev_exc = "none"

\* Lines 17-18: report_ids = set(), and glob() lists the matching entries.
StartScan ==
    /\ pc = "start"
    /\ report_ids' = {}
    /\ pending' = Glob(env.file_encoding, dir)
    /\ pc' = "scan"
    /\ UNCHANGED <<env, dir, plan, mentioned_ids, new_ids, printed, output, exc,
                   plan_read, run, prev_output, prev_exc>>

\* Lines 18-22: one iteration of the loop, on the entry glob() yields next
\* (in no order the script controls).
ScanEntry ==
    /\ pc = "scan"
    /\ \E f \in pending :
         LET m == SearchReport(f)
         IN  /\ pending' = pending \ {f}
             /\ report_ids' = IF m # 0 THEN report_ids \cup {Group1(f, m)}
                                       ELSE report_ids
    /\ UNCHANGED <<env, dir, plan, pc, mentioned_ids, new_ids, printed, output,
                   exc, plan_read, run, prev_output, prev_exc>>

\* Lines 25-28: mentioned_ids = set(); the plan file is read if it exists.
\* read_text() raises FileNotFoundError on a missing file and
\* IsADirectoryError on a directory and UnicodeDecodeError on bytes the
\* encoding does not hold; main() catches none of them.
ReadPlan ==
    /\ pc = "scan"
    /\ pending = {}
    /\ IF ShouldRead(plan)
       THEN /\ plan_read' = TRUE
            /\ IF ~plan.exists
               THEN /\ mentioned_ids' = {}
                    /\ exc' = "FileNotFoundError"
                    /\ pc' = "error"
               ELSE IF plan.isdir
               THEN /\ mentioned_ids' = {}
                    /\ exc' = "IsADirectoryError"
                    /\ pc' = "error"
               ELSE IF ~Decodable(env.file_encoding, plan.bytes)
               THEN /\ mentioned_ids' = {}
                    /\ exc' = "UnicodeDecodeError"
                    /\ pc' = "error"
               ELSE /\ mentioned_ids' =
                         FindAll(Decode(env.file_encoding, plan.bytes))
                    /\ exc' = exc
                    /\ pc' = "diff"
       ELSE /\ plan_read' = plan_read
            /\ mentioned_ids' = {}
            /\ exc' = exc
            /\ pc' = "diff"
    /\ UNCHANGED <<env, dir, plan, pending, report_ids, new_ids, printed,
                   output, run, prev_output, prev_exc>>

\* Line 31: new_ids = sorted(report_ids - mentioned_ids); sorted() reads the
\* set in whatever order its iteration yields.
ComputeNew ==
    /\ pc = "diff"
    /\ \E order \in Orders(NewIdSet(report_ids, mentioned_ids)) :
         new_ids' = SortSeq(order)
    /\ pc' = "print"
    /\ UNCHANGED <<env, dir, plan, pending, report_ids, mentioned_ids, printed,
                   output, exc, plan_read, run, prev_output, prev_exc>>

\* Lines 33-34: a non-empty list is true; the header is printed (it is
\* ASCII, which every encoding of the model holds).
PrintHeader ==
    /\ pc = "print"
    /\ new_ids # <<>>
    /\ output' = Append(output, HeaderLine)
    /\ pc' = "items"
    /\ UNCHANGED <<env, dir, plan, pending, report_ids, mentioned_ids, new_ids,
                   printed, exc, plan_read, run, prev_output, prev_exc>>

\* Lines 35-36: one iteration of the loop over new_ids. print() raises
\* UnicodeEncodeError on a line standard output cannot encode.
PrintItem ==
    /\ pc = "items"
    /\ printed < Len(new_ids)
    /\ IF Encodable(env.stdout_encoding, ItemLine(new_ids[printed + 1]))
       THEN /\ output' = Append(output, ItemLine(new_ids[printed + 1]))
            /\ printed' = printed + 1
            /\ pc' = IF printed + 1 = Len(new_ids) THEN "done" ELSE "items"
            /\ exc' = exc
       ELSE /\ output' = output
            /\ printed' = printed
            /\ pc' = "error"
            /\ exc' = "UnicodeEncodeError"
    /\ UNCHANGED <<env, dir, plan, pending, report_ids, mentioned_ids, new_ids,
                   plan_read, run, prev_output, prev_exc>>

\* Lines 37-38: the list is empty (the line is ASCII).
PrintNone ==
    /\ pc = "print"
    /\ new_ids = <<>>
    /\ output' = Append(output, NoNewLine)
    /\ pc' = "done"
    /\ UNCHANGED <<env, dir, plan, pending, report_ids, mentioned_ids, new_ids,
                   printed, exc, plan_read, run, prev_output, prev_exc>>

\* Lines 40-41: the script is run again; the files are as the last run left
\* them, and every local of main() is new.
Rerun ==
    /\ pc \in {"done", "error"}
    /\ run < MaxRuns
    /\ run' = run + 1
    /\ prev_output' = output
    /\ prev_exc' = exc
    /\ pc' = "start"
    /\ pending' = {}
    /\ report_ids' = {}
    /\ mentioned_ids' = {}
    /\ new_ids' = <<>>
    /\ printed' = 0
    /\ output' = <<>>
    /\ exc' = "none"
    /\ plan_read' = FALSE
    /\ UNCHANGED <<env, dir, plan>>

Next ==
    \/ StartScan
    \/ ScanEntry
    \/ ReadPlan
    \/ ComputeNew
    \/ PrintHeader
    \/ PrintItem
    \/ PrintNone
    \/ Rerun

Spec == Init /\ [][Next]_vars

(***************************************************************************)
(* What the claims speak of.                                               *)
(***************************************************************************)
\* The run has ended: main() returned, or an exception left it.
Terminated == pc \in {"done", "error"}

\* Both sets are built: the run is past line 28.
SetsBuilt == pc \in {"diff", "print", "items", "done"}

\* The whole string has the shape 8 digits, hyphen, 6 digits.
IsStamp(s) == Len(s) = StampLen /\ MatchStampAt(s, 1)

IsItemLine(l) == LiteralAt(l, 1, ItemPrefix)

\* The identifiers of the checklist lines printed so far, in print order.
PrintedIds ==
    LET items == SelectSeq(output, IsItemLine)
    IN  [i \in 1..Len(items) |->
            SubSeq(items[i], Len(ItemPrefix) + 1, Len(items[i]))]

PrintedIdSet == {PrintedIds[i] : i \in 1..Len(PrintedIds)}

StrictlyAscending(s) ==
    \A i \in 1..Len(s) : \A j \in 1..Len(s) : i < j => StrLess(s[i], s[j])

\* The plan file is absent, or its bytes are text.
PlanIsText ==
    ~plan.exists \/ (~plan.isdir /\ Decodable(env.file_encoding, plan.bytes))

\* Every substring of s of the shape 8 digits, hyphen, 6 digits.
AllStamps(s) ==
    {SubSeq(s, i, i + StampLen - 1) : i \in {j \in 1..Len(s) : MatchStampAt(s, j)}}

\* The whole name is report-<8 digits>-<6 digits>.md.
WholeReportName(n) ==
    /\ Len(n) = Len(ReportPrefix) + StampLen + Len(MdSuffix)
    /\ LiteralAt(n, 1, ReportPrefix)
    /\ MatchStampAt(n, Len(ReportPrefix) + 1)
    /\ LiteralAt(n, Len(ReportPrefix) + StampLen + 1, MdSuffix)

\* One of the two output forms, whole.
IsFindingsForm(out) ==
    /\ Len(out) >= 2
    /\ out[1] = HeaderLine
    /\ \A i \in 2..Len(out) : IsItemLine(out[i])
IsNoFindingsForm(out) == out = <<NoNewLine>>

(***************************************************************************)
(* The claims.                                                             *)
(***************************************************************************)
\* C1 (as claimed): whatever the directory holds and whatever text the plan
\* holds (or no plan file at all), the run ends by returning, and the
\* identifiers it printed are exactly report_ids minus mentioned_ids, each
\* once, in ascending order: every report identifier that is not mentioned is
\* printed, and nothing mentioned or outside the report set is.
C1_PrintsSortedDifference ==
    (Terminated /\ PlanIsText) =>
        /\ pc = "done"
        /\ \A id \in report_ids : id \notin mentioned_ids => id \in PrintedIdSet
        /\ \A id \in PrintedIdSet : id \in report_ids /\ id \notin mentioned_ids
        /\ StrictlyAscending(PrintedIds)

\* C2 (as claimed): once the plan file is read, the mentioned set holds every
\* substring of its text of the shape 8 digits, hyphen, 6 digits, those that
\* overlap another such substring included.
C2_MentionsEverySubstring ==
    (SetsBuilt /\ plan.exists) => mentioned_ids = AllStamps(Decode(env.file_encoding, plan.bytes))

\* C3 (as claimed): once the directory is scanned, the report set holds
\* exactly the identifiers of the entries whose whole name is
\* report-<8 digits>-<6 digits>.md; an entry that only ends so yields none.
C3_WholeNameOnly ==
    (SetsBuilt \/ pc = "error") =>
        report_ids =
            {Group1(n, 1) :
                n \in {m \in Listing(env.file_encoding, dir) :
                          WholeReportName(m)}}

\* C4 (as claimed): a run whose report set is a subset of its mentioned set
\* (an empty report set included) has printed, when it ends, exactly the one
\* line "No new findings.".
C4_SubsetPrintsNoNew ==
    (Terminated /\ report_ids \subseteq mentioned_ids) => IsNoFindingsForm(output)

\* C5: at every point of every run, the identifiers printed so far are
\* strictly ascending (so none is printed twice), and each is exactly 8
\* digits, a hyphen and 6 digits.
C5_AscendingStamps ==
    /\ StrictlyAscending(PrintedIds)
    /\ \A i \in 1..Len(PrintedIds) : IsStamp(PrintedIds[i])

\* C5 witness: two entries of the directory yield the same identifier, and
\* the run has printed it and one more.
C5_Witness ==
    /\ pc = "done"
    /\ Len(PrintedIds) >= 2
    /\ \E f \in Glob(env.file_encoding, dir) :
       \E g \in Glob(env.file_encoding, dir) :
         /\ f # g
         /\ SearchReport(f) # 0
         /\ SearchReport(g) # 0
         /\ Group1(f, SearchReport(f)) = Group1(g, SearchReport(g))
         /\ Group1(f, SearchReport(f)) \in PrintedIdSet

\* C6 (as claimed): when the plan file does not exist, no exception is
\* raised, the file is never read, the mentioned set is empty once built,
\* and a run that has ended has printed every identifier of the report set.
C6_AbsentPlanIsEmpty ==
    ~plan.exists =>
        /\ exc = "none"
        /\ pc # "error"
        /\ ~plan_read
        /\ SetsBuilt => mentioned_ids = {}
        /\ pc = "done" => PrintedIdSet = report_ids

\* C7 (as claimed): every run that has ended has printed one of the two
\* forms, whole: the header followed by one checklist line per new
\* identifier (at least one), or the single line "No new findings.".
C7_OneOfTwoForms ==
    Terminated =>
        \/ /\ IsFindingsForm(output)
           /\ Len(output) = 1 + Len(new_ids)
           /\ \A i \in 1..Len(new_ids) : output[i + 1] = ItemLine(new_ids[i])
        \/ IsNoFindingsForm(output)

\* C8: no step of a run changes the directory or the plan file, and a run
\* after the first ends with the output (and the outcome) of the run before
\* it, in whatever order the directory listed its entries and the set was
\* iterated.
C8_RepeatableReadOnly ==
    [][/\ dir' = dir
       /\ plan' = plan
       /\ (pc' \in {"done", "error"} /\ run' > 1) =>
              (output' = prev_output' /\ exc' = prev_exc')]_vars

\* C8 witness: a second run that ended after printing two identifiers or
\* more, as the first did.
C8_Witness ==
    /\ run = 2
    /\ pc = "done"
    /\ Len(PrintedIds) >= 2
    /\ output = prev_output

\* C9 (as claimed): whatever an existing plan file holds, bytes that are not
\* valid text included, no exception is raised, and the run ends by
\* printing one of the two forms.
C9_AnyPlanContentNoError ==
    plan.exists =>
        /\ exc = "none"
        /\ Terminated => (pc = "done" /\ Len(output) >= 1)

\* C10 (as claimed): when the report directory is empty or does not exist,
\* the run ends without exception, with an empty report set and exactly the
\* line "No new findings." printed, whatever the plan file holds.
C10_EmptyDirNoNew ==
    (Terminated /\ Listing(env.file_encoding, dir) = {}) =>
        /\ pc = "done"
        /\ exc = "none"
        /\ report_ids = {}
        /\ output = <<NoNewLine>>

====
